---- MODULE Spec2Model ----
(***************************************************************************)
(* Model of authenticate.py: reconciliation of a party guest list against  *)
(* a payment log, a whitelist and a no-pay list.                           *)
(*                                                                         *)
(* Strings are sequences of one-character strings, so that strip(),        *)
(* lower(), split(), title(), the `in` substring test and the two regular  *)
(* expressions of parse_payments are computed character by character.      *)
(* Amounts are kept in cents (float("5.00") is 500).                       *)
(***************************************************************************)
EXTENDS Integers, Sequences, FiniteSets, TLC

VARIABLES
    pc,                 \* position of main()
    csv_rows,           \* rows of the guest CSV (input file)
    whitelist_file,     \* lines of whitelist.txt (input file)
    no_pay_file,        \* lines of no_pay.txt (input file)
    payment_lines,      \* lines of payments.txt (input file)
    whitelist,          \* set of normalized names
    no_pay,             \* set of normalized names
    row_i,              \* index of the next CSV row
    blacklist,          \* list of display names
    guest_structure,    \* ordered dict: sequence of [key, plus_ones]
    main_guests,        \* dict normalized -> display name
    all_guests,         \* dict normalized -> display name
    line_i,             \* index of the next payment line
    payments,           \* ordered dict: sequence of [name, amount]
    group_i,            \* index of the next group of guest_structure
    payment_amount,     \* local of the group loop (last iteration)
    guests_covered,     \* local of the group loop (last iteration)
    accounted_for,      \* set of normalized names
    unpaid,             \* list of display names
    unpaid_i,           \* index of the next entry of unpaid
    definitely_not_paid \* list of display names

vars == <<pc, csv_rows, whitelist_file, no_pay_file, payment_lines, whitelist,
          no_pay, row_i, blacklist, guest_structure, main_guests, all_guests,
          line_i, payments, group_i, payment_amount, guests_covered,
          accounted_for, unpaid, unpaid_i, definitely_not_paid>>

inputs == <<csv_rows, whitelist_file, no_pay_file, payment_lines>>

(***************************************************************************)
(* Characters and str methods                                              *)
(***************************************************************************)
UpperLetters ==
    <<"A","B","C","D","E","F","G","H","I","J","K","L","M",
      "N","O","P","Q","R","S","T","U","V","W","X","Y","Z">>

LowerLetters ==
    <<"a","b","c","d","e","f","g","h","i","j","k","l","m",
      "n","o","p","q","r","s","t","u","v","w","x","y","z">>

Digits == <<"0","1","2","3","4","5","6","7","8","9">>

UpperSet == {UpperLetters[i] : i \in 1..26}

LowerSet == {LowerLetters[i] : i \in 1..26}

DigitSet == {Digits[i] : i \in 1..10}

\* c.lower() of an upper-case letter
LowerOf == [c \in UpperSet |-> LowerLetters[CHOOSE i \in 1..26 : UpperLetters[i] = c]]

\* c.upper() of a lower-case letter
UpperOf == [c \in LowerSet |-> UpperLetters[CHOOSE i \in 1..26 : LowerLetters[i] = c]]

DigitOf == [c \in DigitSet |-> (CHOOSE i \in 1..10 : Digits[i] = c) - 1]

IsUpper(c) == c \in UpperSet

IsLower(c) == c \in LowerSet

IsLetter(c) == IsUpper(c) \/ IsLower(c)

IsSpace(c) == c \in {" ", "\t"}

IsDigit(c) == c \in DigitSet

DigitVal(c) == DigitOf[c]

ToLower(c) == IF IsUpper(c) THEN LowerOf[c] ELSE c

ToUpper(c) == IF IsLower(c) THEN UpperOf[c] ELSE c

Min(a, b) == IF a <= b THEN a ELSE b

SetMin(S) == CHOOSE x \in S : \A y \in S : x <= y

SetMax(S) == CHOOSE x \in S : \A y \in S : x >= y

\* str.lower()
Lower(s) == [i \in 1..Len(s) |-> ToLower(s[i])]

\* str.strip()
Strip(s) ==
    LET keep == {i \in 1..Len(s) : ~IsSpace(s[i])}
    IN  IF keep = {} THEN <<>> ELSE SubSeq(s, SetMin(keep), SetMax(keep))

\* str.title(): a letter is upper-cased when it does not follow a letter
Title(s) ==
    [i \in 1..Len(s) |->
        IF i = 1 \/ ~IsLetter(s[i-1]) THEN ToUpper(s[i]) ELSE ToLower(s[i])]

\* a in b, for strings
Contains(a, b) ==
    \E i \in 1..(Len(b) - Len(a) + 1) : SubSeq(b, i, i + Len(a) - 1) = a

\* s.split()[0] if s.split() else s
FirstWord(s) ==
    LET t   == Strip(s)
        sp  == {i \in 1..Len(t) : IsSpace(t[i])}
    IN  IF t = <<>> THEN s
        ELSE IF sp = {} THEN t
        ELSE SubSeq(t, 1, SetMin(sp) - 1)

normalize_name(name) == Lower(Strip(name))

(***************************************************************************)
(* Ordered dicts (insertion order) and plain dicts                         *)
(***************************************************************************)
EmptyDict == [x \in {} |-> <<>>]

\* d[k] = v
DictSet(d, k, v) == [x \in (DOMAIN d) \cup {k} |-> IF x = k THEN v ELSE d[x]]

\* d.get(k, default)
DictGet(d, k, default) == IF k \in DOMAIN d THEN d[k] ELSE default

\* keys of the payments dict
PaymentKeys(p) == {p[i].name : i \in 1..Len(p)}

\* payments.get(name, 0.0)
PaymentGet(p, name) ==
    IF name \in PaymentKeys(p)
    THEN p[CHOOSE i \in 1..Len(p) : p[i].name = name].amount
    ELSE 0

(***************************************************************************)
(* parse_payments: the two regular expressions                             *)
(***************************************************************************)
NoMatch == [matched |-> FALSE]

\* [A-Za-z\s\']
NameClass(c) == IsLetter(c) \/ IsSpace(c) \/ c = "'"

\* greedy \s*: the first index >= i whose character is not whitespace
SpaceEnd(s, i) ==
    LET stop == {j \in i..Len(s) : ~IsSpace(s[j])}
    IN  IF stop = {} THEN Len(s) + 1 ELSE SetMin(stop)

\* greedy \d*: the first index >= i whose character is not a digit
DigitEnd(s, i) ==
    LET stop == {j \in i..Len(s) : ~IsDigit(s[j])}
    IN  IF stop = {} THEN Len(s) + 1 ELSE SetMin(stop)

\* the first index >= i whose character is not in [A-Za-z\s\']
NameRunEnd(s, i) ==
    LET stop == {j \in i..Len(s) : ~NameClass(s[j])}
    IN  IF stop = {} THEN Len(s) + 1 ELSE SetMin(stop)

\* a literal of the pattern at index i, under re.IGNORECASE
MatchLit(s, i, lit) ==
    /\ i >= 1
    /\ i + Len(lit) - 1 <= Len(s)
    /\ \A j \in 1..Len(lit) : ToLower(s[i + j - 1]) = ToLower(lit[j])

\* \s+<word>\s+you\s+\$ at index i, followed by a digit: the index of the
\* first digit of the amount, or 0 when it does not match there
TailAt(s, i, word) ==
    LET a == SpaceEnd(s, i)
        b == a + Len(word)
        c == SpaceEnd(s, b)
        d == c + 3
        e == SpaceEnd(s, d)
    IN  IF /\ a > i
           /\ MatchLit(s, a, word)
           /\ c > b
           /\ MatchLit(s, c, <<"y","o","u">>)
           /\ e > d
           /\ e + 1 <= Len(s)
           /\ s[e] = "$"
           /\ IsDigit(s[e + 1])
        THEN e + 1
        ELSE 0

\* value of a string of digits
RECURSIVE DigitsValue(_)
DigitsValue(ds) ==
    IF ds = <<>> THEN 0
    ELSE 10 * DigitsValue(SubSeq(ds, 1, Len(ds) - 1)) + DigitVal(ds[Len(ds)])

\* float(match.group(2)) for (\d+\.?\d*) starting at index p, in cents
\* (fraction digits after the second are below one cent and dropped)
AmountAt(s, p) ==
    LET q     == DigitEnd(s, p)
        whole == DigitsValue(SubSeq(s, p, q - 1))
        r     == IF q <= Len(s) /\ s[q] = "." THEN DigitEnd(s, q + 1)
                 ELSE q
        frac  == IF r > q THEN SubSeq(s, q + 1, r - 1) ELSE <<>>
        cents == IF Len(frac) = 0 THEN 0
                 ELSE IF Len(frac) = 1 THEN 10 * DigitVal(frac[1])
                 ELSE 10 * DigitVal(frac[1]) + DigitVal(frac[2])
    IN  100 * whole + cents

\* ([A-Za-z][A-Za-z\s\']+?) starting at st and followed by the tail: the
\* index after the (lazy, so shortest) name, or 0
NameEndAt(s, st, word) ==
    LET run  == NameRunEnd(s, st + 1)
        ends == {e \in (st + 2)..Min(run, Len(s)) :
                    IsSpace(s[e]) /\ TailAt(s, e, word) # 0}
    IN  IF st >= 1 /\ st <= Len(s) /\ IsLetter(s[st]) /\ ends # {}
        THEN SetMin(ends)
        ELSE 0

\* group(1) and float(group(2)) of a match whose name starts at st
MatchFrom(s, st, word) ==
    LET e == NameEndAt(s, st, word)
    IN  [matched |-> TRUE,
         name    |-> SubSeq(s, st, e - 1),
         amount  |-> AmountAt(s, TailAt(s, e, word))]

w_paid == <<"p","a","i","d">>

w_sent == <<"s","e","n","t">>

w_bofa == <<"B","o","f","A",":">>

\* re.search of the "paid you" pattern: the leftmost match
PaidSearch(s) ==
    LET starts == {st \in 1..Len(s) : NameEndAt(s, st, w_paid) # 0}
    IN  IF starts = {} THEN NoMatch ELSE MatchFrom(s, SetMin(starts), w_paid)

\* (?:BofA:\s+)? at index st: the index after the prefix, or 0
PrefixEnd(s, st) ==
    LET e == SpaceEnd(s, st + Len(w_bofa))
    IN  IF MatchLit(s, st, w_bofa) /\ e > st + Len(w_bofa) THEN e ELSE 0

\* where the name of a "sent you" match beginning at st starts (the optional
\* prefix is tried first), or 0 when no match begins at st
SentNameStart(s, st) ==
    LET p == PrefixEnd(s, st)
    IN  IF p # 0 /\ NameEndAt(s, p, w_sent) # 0 THEN p
        ELSE IF NameEndAt(s, st, w_sent) # 0 THEN st
        ELSE 0

\* re.search of the "sent you" pattern: the leftmost match
SentSearch(s) ==
    LET starts == {st \in 1..Len(s) : SentNameStart(s, st) # 0}
    IN  IF starts = {} THEN NoMatch
        ELSE MatchFrom(s, SentNameStart(s, SetMin(starts)), w_sent)

\* the header test of line 26
IsHeader(line) ==
    /\ Len(line) > 0
    /\ line[Len(line)] = ":"
    /\ ~Contains(w_paid, Lower(line))
    /\ ~Contains(w_sent, Lower(line))

\* AddPayment with the sum lost: a repeated payer's entry is overwritten
AddPayment_Overwrite(p, name, amount) ==
    IF name \in PaymentKeys(p)
    THEN [i \in 1..Len(p) |->
            IF p[i].name = name THEN [name |-> name, amount |-> amount] ELSE p[i]]
    ELSE Append(p, [name |-> name, amount |-> amount])

\* payments[normalized_name] (+)= amount
AddPayment(p, name, amount) ==
    IF name \in PaymentKeys(p)
    THEN [i \in 1..Len(p) |->
            IF p[i].name = name
            THEN [name |-> name, amount |-> p[i].amount + amount]
            ELSE p[i]]
    ELSE Append(p, [name |-> name, amount |-> amount])

\* one iteration of the loop of parse_payments
ParseOneLine(p, raw) ==
    LET line == Strip(raw)
        m1   == PaidSearch(line)
        m2   == SentSearch(line)
    IN  IF line = <<>> THEN p
        ELSE IF IsHeader(line) THEN p
        ELSE IF m1.matched
        THEN AddPayment(p, normalize_name(Strip(m1.name)), m1.amount)
        ELSE IF m2.matched
        THEN AddPayment(p, normalize_name(Strip(m2.name)), m2.amount)
        ELSE p

(***************************************************************************)
(* Input files                                                             *)
(***************************************************************************)
s_Going == <<"G","o","i","n","g">>

r_al == [Name |-> <<"A","l">>, Status |-> <<"G","o","i","n","g">>, PlusOneOf |-> <<>>]

r_alb == [Name |-> <<"A","l"," ","B">>, Status |-> <<"G","o","i","n","g">>, PlusOneOf |-> <<>>]

r_bo == [Name |-> <<" ","B","o">>, Status |-> <<"G","o","i","n","g"," ">>, PlusOneOf |-> <<"A","L"," ">>]

r_cy == [Name |-> <<"C","y">>, Status |-> <<"G","o","i","n","g">>, PlusOneOf |-> <<"B","o">>]

r_al_maybe == [Name |-> <<"A","l">>, Status |-> <<"M","a","y","b","e">>, PlusOneOf |-> <<>>]

l_al10 == <<"a","l"," ","p","a","i","d"," ","y","o","u"," ","$","1","0",".","0","0">>

l_alb3 == <<"B","o","f","A",":"," ","A","l"," ","B"," ","s","e","n","t"," ","y","o","u"," ","$","3">>

l_al0 == <<"a","l"," "," ","s","e","n","t"," ","y","o","u"," ","$","0",".","0","0">>

l_blank == <<" ","\t">>

l_header == <<"8","6","7","5","3",":">>

l_both == <<"c","y"," ","s","e","n","t"," ","y","o","u"," ","$","2"," ","b","o"," ","p","a","i","d"," ","y","o","u"," ","$","1">>

l_short == <<"a"," ","p","a","i","d"," ","y","o","u"," ","$","5">>

l_colon == <<"A","L"," ","P","A","I","D"," ","Y","O","U"," ","$","2",".","5",":">>

l_tab == <<"\t","o","'","a","l","\t","p","a","i","d"," "," ","y","o","u"," ","$","4",".","2","5"," ">>

RowPool == {r_al, r_alb, r_bo, r_cy, r_al_maybe}

LinePool == {l_al10, l_alb3, l_al0}

ParseLinePool ==
    {l_al10, l_alb3, l_blank, l_header, l_both, l_short, l_colon, l_tab}

WhitelistFiles == {<<<<"a","l">>, <<>>, <<" ","B","o"," ">>>>, <<<<"C","y">>>>}

NoPayFiles == {<<>>, <<<<"B","O">>, <<"a","l"," ","b"," ">>>>}

MaxRows == 2

MaxLines == 2

MaxParseLines == 3

\* sequences over S of length at most n
SeqsUpTo(S, n) == UNION {[1..k -> S] : k \in 0..n}

(***************************************************************************)
(* main(): helpers                                                         *)
(***************************************************************************)
PRICE_PER_GUEST == 500

\* {normalize_name(line.strip()) for line in f if line.strip()}
ReadNameSet(file) ==
    {normalize_name(Strip(file[i])) : i \in {j \in 1..Len(file) : Strip(file[j]) # <<>>}}

GroupKeys(gs) == {gs[i].key : i \in 1..Len(gs)}

\* guest_structure[key].append(name) on the defaultdict(list)
GroupAppend(gs, key, name) ==
    IF key \in GroupKeys(gs)
    THEN [i \in 1..Len(gs) |->
            IF gs[i].key = key
            THEN [key |-> key, plus_ones |-> Append(gs[i].plus_ones, name)]
            ELSE gs[i]]
    ELSE Append(gs, [key |-> key, plus_ones |-> <<name>>])

\* if key not in guest_structure: guest_structure[key] = []
GroupEnsure(gs, key) ==
    IF key \in GroupKeys(gs) THEN gs
    ELSE Append(gs, [key |-> key, plus_ones |-> <<>>])

\* line 80: status == 'Going'
IsGoing(row) == Strip(row.Status) = s_Going

\* BlacklistAppend looking the display name up in the whitelist
BlacklistAppend_RawName(bl, wl, name) ==
    IF name \notin wl THEN Append(bl, name) ELSE bl

\* lines 83-88: blacklist after the whitelist check of a Going row
BlacklistAppend(bl, wl, name) ==
    IF normalize_name(name) \notin wl THEN Append(bl, name) ELSE bl

\* the partial-match condition of lines 125-132 (repeated at 170-178)
PartialMatch(guest, payment_name) ==
    LET guest_first_word   == FirstWord(guest)
        payment_first_word == FirstWord(payment_name)
    IN  \/ Contains(guest, payment_name)
        \/ Contains(payment_name, guest)
        \/ guest_first_word = payment_first_word
        \/ Contains(guest_first_word, payment_name)
        \/ Contains(payment_first_word, guest)

\* the scan of lines 122-134 from entry i on: the amount of the first
\* entry that matches, payment_amount (0) when the loop ends without break
RECURSIVE ScanPayments(_, _, _)
ScanPayments(p, i, main_guest_normalized) ==
    IF i > Len(p) THEN 0
    ELSE IF PartialMatch(main_guest_normalized, p[i].name) THEN p[i].amount
    ELSE ScanPayments(p, i + 1, main_guest_normalized)

\* ResolvePayment scanning whenever the exact amount is below the price
ResolvePayment_BelowPrice(p, main_guest_normalized) ==
    LET exact == PaymentGet(p, main_guest_normalized)
    IN  IF exact < PRICE_PER_GUEST
        THEN ScanPayments(p, 1, main_guest_normalized)
        ELSE exact

\* payment_amount after lines 118-134
ResolvePayment(p, main_guest_normalized) ==
    LET exact == PaymentGet(p, main_guest_normalized)
    IN  IF exact = 0 THEN ScanPayments(p, 1, main_guest_normalized) ELSE exact

\* GuestsCovered rounding up instead of down
GuestsCovered_RoundUp(amount) ==
    (amount + PRICE_PER_GUEST - 1) \div PRICE_PER_GUEST

\* int(payment_amount / PRICE_PER_GUEST)
GuestsCovered(amount) == amount \div PRICE_PER_GUEST

\* main_guests.get(k, all_guests.get(k, k.title()))
MainGuestName(mg, ag, k) == DictGet(mg, k, DictGet(ag, k, Title(k)))

\* accounted_for after lines 142-149
MarkAccounted(acc, key, plus_ones, covered) ==
    IF covered > 0
    THEN acc \cup {key}
             \cup {normalize_name(plus_ones[i]) :
                      i \in 1..Min(covered - 1, Len(plus_ones))}
    ELSE acc

\* what lines 152-158 append to unpaid
UnpaidOfGroup(acc, key, main_guest_name, plus_ones) ==
    (IF key \notin acc THEN <<main_guest_name>> ELSE <<>>)
    \o SelectSeq(plus_ones, LAMBDA g : normalize_name(g) \notin acc)

\* HasPayment without the partial matches
HasPayment_ExactOnly(p, unpaid_guest) ==
    normalize_name(unpaid_guest) \in PaymentKeys(p)

\* has_payment after lines 164-180
HasPayment(p, unpaid_guest) ==
    LET unpaid_normalized == normalize_name(unpaid_guest)
    IN  \/ unpaid_normalized \in PaymentKeys(p)
        \/ \E i \in 1..Len(p) : PartialMatch(unpaid_normalized, p[i].name)

\* IsDefinitelyNotPaid looking the display name up in no_pay
IsDefinitelyNotPaid_RawName(p, np, unpaid_guest) ==
    /\ ~HasPayment(p, unpaid_guest)
    /\ unpaid_guest \notin np

\* lines 182-185: whether the guest is appended to definitely_not_paid
IsDefinitelyNotPaid(p, np, unpaid_guest) ==
    /\ ~HasPayment(p, unpaid_guest)
    /\ normalize_name(unpaid_guest) \notin np

(***************************************************************************)
(* main(): the state machine                                               *)
(***************************************************************************)
Blank ==
    /\ whitelist = {}
    /\ no_pay = {}
    /\ row_i = 1
    /\ blacklist = <<>>
    /\ guest_structure = <<>>
    /\ main_guests = EmptyDict
    /\ all_guests = EmptyDict
    /\ line_i = 1
    /\ payments = <<>>
    /\ group_i = 1
    /\ payment_amount = 0
    /\ guests_covered = 0
    /\ accounted_for = {}
    /\ unpaid = <<>>
    /\ unpaid_i = 1
    /\ definitely_not_paid = <<>>

Init ==
    /\ pc = "whitelist"
    /\ csv_rows \in SeqsUpTo(RowPool, MaxRows)
    /\ whitelist_file \in WhitelistFiles
    /\ no_pay_file \in NoPayFiles
    /\ payment_lines \in SeqsUpTo(LinePool, MaxLines)
    /\ Blank

\* lines 57-58
ReadWhitelist ==
    /\ pc = "whitelist"
    /\ whitelist' = ReadNameSet(whitelist_file)
    /\ pc' = "no_pay"
    /\ UNCHANGED <<inputs, no_pay, row_i, blacklist, guest_structure,
                   main_guests, all_guests, line_i, payments, group_i,
                   payment_amount, guests_covered, accounted_for, unpaid,
                   unpaid_i, definitely_not_paid>>

\* lines 61-62
ReadNoPay ==
    /\ pc = "no_pay"
    /\ no_pay' = ReadNameSet(no_pay_file)
    /\ pc' = "csv"
    /\ UNCHANGED <<inputs, whitelist, row_i, blacklist, guest_structure,
                   main_guests, all_guests, line_i, payments, group_i,
                   payment_amount, guests_covered, accounted_for, unpaid,
                   unpaid_i, definitely_not_paid>>

\* one iteration of the loop of lines 74-101
ReadRow ==
    /\ pc = "csv"
    /\ row_i <= Len(csv_rows)
    /\ LET row             == csv_rows[row_i]
           name            == Strip(row.Name)
           plus_one_of     == Strip(row.PlusOneOf)
           normalized_name == normalize_name(name)
       IN  IF ~IsGoing(row)
           THEN UNCHANGED <<blacklist, guest_structure, main_guests, all_guests>>
           ELSE /\ all_guests' = DictSet(all_guests, normalized_name, name)
                /\ blacklist' = BlacklistAppend(blacklist, whitelist, name)
                /\ IF plus_one_of # <<>>
                   THEN /\ guest_structure' =
                              GroupAppend(guest_structure,
                                          normalize_name(plus_one_of), name)
                        /\ UNCHANGED main_guests
                   ELSE /\ main_guests' =
                              DictSet(main_guests, normalize_name(name), name)
                        /\ guest_structure' =
                              GroupEnsure(guest_structure, normalize_name(name))
    /\ row_i' = row_i + 1
    /\ UNCHANGED <<pc, inputs, whitelist, no_pay, line_i, payments, group_i,
                   payment_amount, guests_covered, accounted_for, unpaid,
                   unpaid_i, definitely_not_paid>>

\* the loop of line 74 ends; line 104 calls parse_payments
EndRows ==
    /\ pc = "csv"
    /\ row_i > Len(csv_rows)
    /\ pc' = "payments"
    /\ UNCHANGED <<inputs, whitelist, no_pay, row_i, blacklist,
                   guest_structure, main_guests, all_guests, line_i, payments,
                   group_i, payment_amount, guests_covered, accounted_for,
                   unpaid, unpaid_i, definitely_not_paid>>

\* one iteration of the loop of lines 19-51
ParseLine ==
    /\ pc = "payments"
    /\ line_i <= Len(payment_lines)
    /\ payments' = ParseOneLine(payments, payment_lines[line_i])
    /\ line_i' = line_i + 1
    /\ UNCHANGED <<pc, inputs, whitelist, no_pay, row_i, blacklist,
                   guest_structure, main_guests, all_guests, group_i,
                   payment_amount, guests_covered, accounted_for, unpaid,
                   unpaid_i, definitely_not_paid>>

\* line 53 returns the ledger; lines 107-111
ReturnPayments ==
    /\ pc = "payments"
    /\ line_i > Len(payment_lines)
    /\ pc' = "groups"
    /\ accounted_for' = {}
    /\ unpaid' = <<>>
    /\ UNCHANGED <<inputs, whitelist, no_pay, row_i, blacklist,
                   guest_structure, main_guests, all_guests, line_i, payments,
                   group_i, payment_amount, guests_covered, unpaid_i,
                   definitely_not_paid>>

\* one iteration of the loop of lines 114-158
ProcessGroup ==
    /\ pc = "groups"
    /\ group_i <= Len(guest_structure)
    /\ LET main_guest_normalized == guest_structure[group_i].key
           plus_ones             == guest_structure[group_i].plus_ones
           main_guest_name       ==
               MainGuestName(main_guests, all_guests, main_guest_normalized)
           amount                == ResolvePayment(payments, main_guest_normalized)
           covered               == GuestsCovered(amount)
           acc                   ==
               MarkAccounted(accounted_for, main_guest_normalized, plus_ones, covered)
       IN  /\ payment_amount' = amount
           /\ guests_covered' = covered
           /\ accounted_for' = acc
           /\ unpaid' = unpaid \o
                  UnpaidOfGroup(acc, main_guest_normalized, main_guest_name, plus_ones)
    /\ group_i' = group_i + 1
    /\ UNCHANGED <<pc, inputs, whitelist, no_pay, row_i, blacklist,
                   guest_structure, main_guests, all_guests, line_i, payments,
                   unpaid_i, definitely_not_paid>>

\* the loop of line 114 ends; line 161
EndGroups ==
    /\ pc = "groups"
    /\ group_i > Len(guest_structure)
    /\ pc' = "verify"
    /\ definitely_not_paid' = <<>>
    /\ UNCHANGED <<inputs, whitelist, no_pay, row_i, blacklist,
                   guest_structure, main_guests, all_guests, line_i, payments,
                   group_i, payment_amount, guests_covered, accounted_for,
                   unpaid, unpaid_i>>

\* one iteration of the loop of lines 163-185
VerifyUnpaid ==
    /\ pc = "verify"
    /\ unpaid_i <= Len(unpaid)
    /\ definitely_not_paid' =
          IF IsDefinitelyNotPaid(payments, no_pay, unpaid[unpaid_i])
          THEN Append(definitely_not_paid, unpaid[unpaid_i])
          ELSE definitely_not_paid
    /\ unpaid_i' = unpaid_i + 1
    /\ UNCHANGED <<pc, inputs, whitelist, no_pay, row_i, blacklist,
                   guest_structure, main_guests, all_guests, line_i, payments,
                   group_i, payment_amount, guests_covered, accounted_for,
                   unpaid>>

\* the loop of line 163 ends; lines 188-206 print the two reports
PrintResults ==
    /\ pc = "verify"
    /\ unpaid_i > Len(unpaid)
    /\ pc' = "done"
    /\ UNCHANGED <<inputs, whitelist, no_pay, row_i, blacklist,
                   guest_structure, main_guests, all_guests, line_i, payments,
                   group_i, payment_amount, guests_covered, accounted_for,
                   unpaid, unpaid_i, definitely_not_paid>>

Next ==
    \/ ReadWhitelist
    \/ ReadNoPay
    \/ ReadRow
    \/ EndRows
    \/ ParseLine
    \/ ReturnPayments
    \/ ProcessGroup
    \/ EndGroups
    \/ VerifyUnpaid
    \/ PrintResults

Spec == Init /\ [][Next]_vars

\* parse_payments on its own, on a payments file of any lines
InitParse ==
    /\ pc = "payments"
    /\ csv_rows = <<>>
    /\ whitelist_file = <<>>
    /\ no_pay_file = <<>>
    /\ payment_lines \in SeqsUpTo(ParseLinePool, MaxParseLines)
    /\ Blank

NextParse == ParseLine \/ ReturnPayments

SpecParse == InitParse /\ [][NextParse]_vars

(***************************************************************************)
(* Properties                                                              *)
(***************************************************************************)
Range(q) == {q[i] : i \in 1..Len(q)}

Processed == pc \in {"groups", "verify", "done"} /\ group_i > 1

\* the fuzzy-match predicate as the specification words it: equal, substring
\* either way, equal first tokens, or either name containing the other's
\* first token
Matches(a, b) ==
    \/ a = b
    \/ Contains(a, b)
    \/ Contains(b, a)
    \/ FirstWord(a) = FirstWord(b)
    \/ Contains(FirstWord(a), b)
    \/ Contains(FirstWord(b), a)

\* indices of the ledger entries that match a normalized name
MatchingEntries(n) == {i \in 1..Len(payments) : Matches(n, payments[i].name)}

\* the resolved payment of a group key, stated on the final ledger: the
\* exact entry when it is non-zero, else the first matching entry, else 0
Resolved(key) ==
    LET exact == {i \in 1..Len(payments) : payments[i].name = key}
    IN  IF exact # {} /\ payments[SetMin(exact)].amount # 0
        THEN payments[SetMin(exact)].amount
        ELSE IF MatchingEntries(key) = {} THEN 0
        ELSE payments[SetMin(MatchingEntries(key))].amount

\* display name of the main guest of group g
NameOfGroup(g) == MainGuestName(main_guests, all_guests, guest_structure[g].key)

\* a step of the group loop
GroupStep == pc = "groups" /\ group_i' = group_i + 1

\* display names of the attendees: the rows with status "Going"
GoingNames ==
    {Strip(csv_rows[j].Name) :
        j \in {k \in 1..Len(csv_rows) : Strip(csv_rows[k].Status) = s_Going}}

\* C1: a group whose resolved payment is at least 5.0 * (1 + k) has its main
\* guest and its first k dependents marked accounted-for, and none of them is
\* in the tentative unpaid list or in the definitely-not-paid list.
C1_CoveredNeverUnpaid ==
    pc = "done" =>
        \A g \in 1..Len(guest_structure) :
            LET key  == guest_structure[g].key
                deps == guest_structure[g].plus_ones
            IN  \A k \in 0..Len(deps) :
                    Resolved(key) >= PRICE_PER_GUEST * (1 + k) =>
                        /\ key \in accounted_for
                        /\ NameOfGroup(g) \notin Range(unpaid)
                        /\ NameOfGroup(g) \notin Range(definitely_not_paid)
                        /\ \A i \in 1..k :
                              /\ normalize_name(deps[i]) \in accounted_for
                              /\ deps[i] \notin Range(unpaid)
                              /\ deps[i] \notin Range(definitely_not_paid)

\* C2: no name whose normalized form is in the no-pay set is ever in the
\* definitely-not-paid list.
C2_NoPayNeverReported ==
    \A i \in 1..Len(definitely_not_paid) :
        normalize_name(definitely_not_paid[i]) \notin no_pay

\* a guest of the unpaid list has been verified, matches no ledger key, and is
\* left out of the report because of the no-pay set alone
C2_Witness ==
    /\ pc = "done"
    /\ \E i \in 1..Len(unpaid) :
          /\ normalize_name(unpaid[i]) \in no_pay
          /\ MatchingEntries(normalize_name(unpaid[i])) = {}
          /\ unpaid[i] \notin Range(definitely_not_paid)

\* the blacklist the rows read so far must give
ExpectedBlacklist ==
    LET rows == SubSeq(csv_rows, 1, row_i - 1)
        sel  == SelectSeq(rows, LAMBDA r :
                    /\ Strip(r.Status) = s_Going
                    /\ normalize_name(r.Name) \notin whitelist)
    IN  [i \in 1..Len(sel) |-> Strip(sel[i].Name)]

\* C3: the blacklist is exactly the input-order sequence of the display names
\* of the Going rows whose normalized name is not in the whitelist, whatever
\* the ledger and the no-pay set are.
C3_BlacklistExact ==
    pc \notin {"whitelist", "no_pay"} => blacklist = ExpectedBlacklist

\* a run with a ledger and a no-pay set where one row is blacklisted and
\* another is not
C3_Witness ==
    /\ pc = "done"
    /\ blacklist # <<>>
    /\ Len(blacklist) < Len(csv_rows)
    /\ payments # <<>>
    /\ no_pay # {}

\* the index of the ledger entry a group's resolved payment comes from (0 when
\* no entry matches)
OwnEntry(key) ==
    LET exact == {i \in 1..Len(payments) : payments[i].name = key}
    IN  IF exact # {} /\ payments[SetMin(exact)].amount # 0 THEN SetMin(exact)
        ELSE IF MatchingEntries(key) = {} THEN 0
        ELSE SetMin(MatchingEntries(key))

\* C4 as claimed: a group whose resolved payment is below 5.0 does not mark
\* its main guest accounted-for, and the main guest is reported as definitely
\* not paid when not in the no-pay set and when no ledger entry other than the
\* group's own payment entry matches the name.
C4_AsClaimed ==
    [][/\ (GroupStep /\ payment_amount' < PRICE_PER_GUEST) =>
             (guest_structure[group_i].key \in accounted_for' =>
                 guest_structure[group_i].key \in accounted_for)
       /\ pc' = "done" =>
             \A g \in 1..Len(guest_structure) :
                 LET key == guest_structure[g].key
                 IN  (/\ Resolved(key) < PRICE_PER_GUEST
                      /\ key \notin no_pay
                      /\ MatchingEntries(key) \subseteq {OwnEntry(key)})
                     => NameOfGroup(g) \in Range(definitely_not_paid')]_vars

\* C4 as amended: the step of a group whose resolved payment is below 5.0
\* marks nobody accounted-for and appends the main guest to the unpaid list
\* unless the name is already accounted-for; a main guest of such a group who
\* is in the unpaid list is reported as definitely not paid when not in the
\* no-pay set and when no ledger entry at all matches the name.
C4_BelowPriceUnpaid ==
    [][/\ (GroupStep /\ payment_amount' < PRICE_PER_GUEST) =>
             /\ guests_covered' = 0
             /\ accounted_for' = accounted_for
             /\ guest_structure[group_i].key \notin accounted_for =>
                   /\ Len(unpaid') > Len(unpaid)
                   /\ unpaid'[Len(unpaid) + 1] = NameOfGroup(group_i)
       /\ pc' = "done" =>
             \A g \in 1..Len(guest_structure) :
                 LET key == guest_structure[g].key
                 IN  (/\ Resolved(key) < PRICE_PER_GUEST
                      /\ NameOfGroup(g) \in Range(unpaid')
                      /\ key \notin no_pay
                      /\ MatchingEntries(key) = {})
                     => NameOfGroup(g) \in Range(definitely_not_paid')]_vars

\* one main guest with no ledger match is reported, and another whose group
\* paid a non-zero amount below 5.0 is in the unpaid list but not reported
C4_Witness ==
    /\ pc = "done"
    /\ \E g \in 1..Len(guest_structure) :
          /\ Resolved(guest_structure[g].key) = 0
          /\ MatchingEntries(guest_structure[g].key) = {}
          /\ NameOfGroup(g) \in Range(definitely_not_paid)
    /\ \E g \in 1..Len(guest_structure) :
          /\ Resolved(guest_structure[g].key) > 0
          /\ Resolved(guest_structure[g].key) < PRICE_PER_GUEST
          /\ NameOfGroup(g) \in Range(unpaid)
          /\ NameOfGroup(g) \notin Range(definitely_not_paid)

\* the match of a payment line: by the "paid you" pattern when it matches,
\* else by the "sent you" pattern
LineMatch(line) ==
    LET m == PaidSearch(line)
    IN  IF m.matched THEN m ELSE SentSearch(line)

\* sum of the amounts of the matches ms whose normalized payer is n
RECURSIVE SumFor(_, _)
SumFor(ms, n) ==
    IF ms = <<>> THEN 0
    ELSE (IF Head(ms).matched /\ normalize_name(Head(ms).name) = n
          THEN Head(ms).amount
          ELSE 0)
         + SumFor(Tail(ms), n)

\* C5: the ledger maps each normalized payer to the sum of the amounts of the
\* lines that match one of the two patterns with that payer (a line counts
\* once, by the "paid you" pattern first); lines that match neither create no
\* entry, and no amount is negative.
C5_LedgerIsSum ==
    LET ms      == [j \in 1..(line_i - 1) |-> LineMatch(payment_lines[j])]
        matched == {j \in 1..Len(ms) : ms[j].matched}
    IN  /\ PaymentKeys(payments) = {normalize_name(ms[j].name) : j \in matched}
        /\ \A i \in 1..Len(payments) :
              /\ payments[i].amount = SumFor(ms, payments[i].name)
              /\ payments[i].amount >= 0
        /\ \A i, j \in 1..Len(payments) :
              payments[i].name = payments[j].name => i = j

\* the ledger is returned with an entry that sums two lines, from a file that
\* also holds a line matching neither pattern
C5_Witness ==
    /\ pc = "groups"
    /\ \E i, j \in 1..Len(payment_lines) :
          /\ i < j
          /\ LineMatch(payment_lines[i]).matched
          /\ LineMatch(payment_lines[j]).matched
          /\ LineMatch(payment_lines[i]).amount > 0
          /\ LineMatch(payment_lines[j]).amount > 0
          /\ normalize_name(LineMatch(payment_lines[i]).name)
                = normalize_name(LineMatch(payment_lines[j]).name)
    /\ \E k \in 1..Len(payment_lines) :
          /\ Strip(payment_lines[k]) # <<>>
          /\ ~LineMatch(payment_lines[k]).matched

\* C6: every entry of the definitely-not-paid list is the display name of a
\* row with status "Going".
C6_OnlyAttendeesReported ==
    \A i \in 1..Len(definitely_not_paid) : definitely_not_paid[i] \in GoingNames

\* whether the second pass keeps a guest: no ledger key equals or fuzzy-matches
\* the normalized name, whatever the amount, and the name is not in no_pay
KeptBySecondPass(guest) ==
    /\ MatchingEntries(normalize_name(guest)) = {}
    /\ normalize_name(guest) \notin no_pay

\* C7: the definitely-not-paid list is exactly the subsequence, in order, of
\* the unpaid list made of the guests that match no ledger key at all and are
\* not in the no-pay set.
C7_SecondPassFilter ==
    pc \in {"verify", "done"} =>
        definitely_not_paid =
            SelectSeq(SubSeq(unpaid, 1, unpaid_i - 1), KeptBySecondPass)

\* the second pass has dropped a guest whose only matching ledger entries are
\* below the price, and has kept another guest
C7_Witness ==
    /\ pc = "done"
    /\ definitely_not_paid # <<>>
    /\ \E i \in 1..Len(unpaid) :
          LET m == MatchingEntries(normalize_name(unpaid[i]))
          IN  /\ m # {}
              /\ \A e \in m : payments[e].amount < PRICE_PER_GUEST
              /\ normalize_name(unpaid[i]) \notin no_pay
              /\ unpaid[i] \notin Range(definitely_not_paid)

\* C8: the amount resolved for a group is the amount stored under its key
\* when that is non-zero; otherwise it is the amount of the first ledger key,
\* in insertion order, that matches, or 0 when none does.
C8_ResolvedAmount ==
    Processed => payment_amount = Resolved(guest_structure[group_i - 1].key)

\* a group whose own entry holds an amount above 0 and below 5.0 keeps it
\* although a larger entry matches its key
C8_Witness ==
    /\ Processed
    /\ LET key == guest_structure[group_i - 1].key
       IN  /\ key \in PaymentKeys(payments)
           /\ PaymentGet(payments, key) > 0
           /\ PaymentGet(payments, key) < PRICE_PER_GUEST
           /\ payment_amount = PaymentGet(payments, key)
           /\ \E e \in MatchingEntries(key) : payments[e].amount > payment_amount

\* total of the ledger amounts
RECURSIVE LedgerTotal(_)
LedgerTotal(p) == IF p = <<>> THEN 0 ELSE Head(p).amount + LedgerTotal(Tail(p))

\* C9: the number of guests marked accounted-for never exceeds the total of
\* the ledger amounts divided by 5.0, rounded down.
C9_NoDoubleCounting ==
    Cardinality(accounted_for) <= LedgerTotal(payments) \div PRICE_PER_GUEST

\* the members of a group that its payment does not cover by position
UncoveredByPosition(g, covered) ==
    LET deps == guest_structure[g].plus_ones
    IN  (IF covered >= 1 THEN <<>> ELSE <<NameOfGroup(g)>>)
        \o SubSeq(deps, IF covered >= 1 THEN covered ELSE 1, Len(deps))

\* C10: a group's step appends to the unpaid list every member whose position
\* its own payment does not cover (main guest: 1 covered, i-th dependent:
\* i + 1 covered), whoever else bears the same normalized name.
C10_CoverageByPosition ==
    [][GroupStep =>
          unpaid' = unpaid \o UncoveredByPosition(group_i, guests_covered')]_vars

====
